---- MODULE Spec2Model ----
(***************************************************************************)
(* Model of 04-allocate-ReefIDs.py: the base-N symbol codec, the grid      *)
(* encoder, the counter encoder and the ReefID allocator                   *)
(* (process_shapefile), with the command line entry point (main).          *)
(*                                                                         *)
(* Strings are sequences of one-character strings, so that indexing,       *)
(* concatenation and split('-') are computed as Python computes them.      *)
(*                                                                         *)
(* Floats.  Coordinates are binary64 values.  A value is held as a record  *)
(* [m, e] standing for  m / Q  +  e * tau  degrees, where Q = 5*49*256 and *)
(* tau = 1 / (245 * 2^53) degree.  The lattice part m / Q carries the      *)
(* exact rationals 360/B, 360/B^2, 180/B, 180/B^2 of the four bases; the   *)
(* part e carries what binary64 adds to or removes from them (rounding of  *)
(* a quotient, the last bits of a coordinate).  |e * tau| < 2^-40 while    *)
(* one lattice unit is 2^-16 degree, so the lattice part decides every     *)
(* comparison unless the lattice parts are equal.                          *)
(***************************************************************************)
EXTENDS Integers, Sequences, FiniteSets, TLC

(***************************************************************************)
(* Bounds of the model.                                                    *)
(***************************************************************************)
MaxCounter == 1100   \* counters given to encode_counter are 0..MaxCounter
MaxPadding == 10     \* zero_padding given to encode_counter is -1..MaxPadding
MaxFeatures == 3     \* rows of an input feature collection
LonSweep == 79       \* longitudes -180 + 4.5 k, k in 0..LonSweep, kept below 180
LatSweep == 39       \* latitudes   -90 + 4.5 k, k in 0..LatSweep, kept below  90
MaxDigit == 40       \* values given to encode_base_str are -MaxDigit..MaxDigit
MaxExisting == 5     \* the retry loop starts at, and finds occupied, 0..MaxExisting

(***************************************************************************)
(* Strings                                                                 *)
(***************************************************************************)
None == <<"None">>           \* Python None / NaN in the ReefID column
Hyphen == "-"

RECURSIVE IndexOf(_, _, _)
\* str.index(char), 0-based, from position i (1-based); -1 when absent
IndexOf(s, c, i) ==
    IF i > Len(s) THEN 0 - 1
    ELSE IF s[i] = c THEN i - 1
    ELSE IndexOf(s, c, i + 1)

RECURSIVE SplitFrom(_, _, _)
\* the parts of s[i..] separated by Hyphen, cur being the part under way
SplitFrom(s, i, cur) ==
    IF i > Len(s) THEN <<cur>>
    ELSE IF s[i] = Hyphen THEN <<cur>> \o SplitFrom(s, i + 1, <<>>)
    ELSE SplitFrom(s, i + 1, Append(cur, s[i]))

\* reef_id.split('-')
Split(s) == SplitFrom(s, 1, <<>>)

(***************************************************************************)
(* Lines 15-27: the alphabets                                              *)
(***************************************************************************)
BASE_B32_CAPS ==
    << "2","3","4","5","6","7","8","9","A","B","C","D","E","F","G","H",
       "J","K","L","M","N","P","Q","R","S","T","U","V","W","X","Y","Z" >>
BASE_B32_LOWER ==
    << "2","3","4","5","6","7","8","9","a","b","c","d","e","f","g","h",
       "j","k","l","m","n","p","q","r","s","t","u","v","w","x","y","z" >>
BASE_B10 == << "0","1","2","3","4","5","6","7","8","9" >>
BASE_B16 ==
    << "0","1","2","3","4","5","6","7","8","9","A","B","C","D","E","F" >>
BASE_B14 == << "2","3","4","5","6","7","8","9","A","B","C","D","E","F" >>

BASE_CHAR_SETS ==
    ("B32_CAPS" :> BASE_B32_CAPS) @@ ("B32_LOWER" :> BASE_B32_LOWER) @@
    ("B10" :> BASE_B10) @@ ("B16" :> BASE_B16) @@ ("B14" :> BASE_B14)

VARIABLES
    argv,               \* the command line the process was started with
    input_file,         \* what read_file finds at input-path
    args,               \* the parsed command line (argparse namespace)
    base_char_set,      \* module global, line 30 / 176
    pc,                 \* where the process is
    input,              \* the feature collection stored at input-path
    gdf,                \* the loaded GeoDataFrame: rows [lon, lat, ReefID]
    ri,                 \* position of the registration loop (line 93)
    grid_feature_count, \* dict prefix -> dict grid_scheme -> next counter
    grid_existing_ids,  \* dict prefix -> dict grid_scheme -> set of counter codes
    grid_schemes,       \* line 117: the grid code of every row
    groups,             \* line 118: grid codes still to visit
    sub_gdf,            \* line 119/121: rows of the current group still to visit
    output,             \* the feature collection stored at output-path
    run,                \* how many times the program was started
    out1,               \* what the first run read and wrote
    sort_ties,          \* how this build's quicksort orders equal keys
    call,               \* arguments of a direct call of a pure function
    ret                 \* its result

vars == << argv, input_file, args, base_char_set, pc, input, gdf, ri, grid_feature_count,
           grid_existing_ids, grid_schemes, groups, sub_gdf, output, run,
           out1, sort_ties, call, ret >>

\* line 31 / 177
encoding_base == Len(base_char_set)

(***************************************************************************)
(* Results of operations that can raise                                    *)
(***************************************************************************)
Ok(v) == [exc |-> "none", val |-> v]
Raise(e) == [exc |-> e, val |-> <<>>]

(***************************************************************************)
(* binary64 arithmetic on [m, e] values                                    *)
(***************************************************************************)
Q == 5 * 49 * 256                 \* lattice units per degree
Fl(m, e) == [m |-> m, e |-> e]
Deg(d) == Fl(d * Q, 0)            \* the float of a whole number of degrees
Abs(i) == IF i < 0 THEN 0 - i ELSE i

\* |x| < k degrees
MagBelow(x, k) ==
    \/ Abs(x.m) < k * Q
    \/ Abs(x.m) = k * Q /\ (IF x.m > 0 THEN x.e < 0 ELSE x.e > 0)

RECURSIVE UlpFrom(_, _, _)
UlpFrom(x, k, u) == IF MagBelow(x, k) THEN u ELSE UlpFrom(x, 2 * k, 2 * u)
\* the spacing of binary64 at x, in tau, for |x| >= 1/2:
\* 2^-53 degree = 245 tau in [1/2, 1), doubling with every binade
Ulp(x) == UlpFrom(x, 1, 245)

\* e rounded to a multiple of u, nearest, ties to even
RoundHalfEven(e, u) ==
    LET q == e \div u
        r == e % u
    IN  IF 2 * r < u THEN q * u
        ELSE IF 2 * r > u THEN (q + 1) * u
        ELSE IF q % 2 = 0 THEN q * u ELSE (q + 1) * u

\* the binary64 nearest to the exact value x (lattice part a float itself)
FRound(x) == IF x.e = 0 THEN x ELSE Fl(x.m, RoundHalfEven(x.e, Ulp(x)))

\* float + float
FAdd(x, y) == FRound(Fl(x.m + y.m, x.e + y.e))

\* Python float divmod(x, y) for y > 0: the floor quotient and the remainder,
\* both exact (float_divmod takes them from fmod)
FDivMod(x, y) ==
    LET q0 == x.m \div y.m
        r0 == x.m % y.m
        re == x.e - q0 * y.e
    IN  IF r0 > 0 \/ re >= 0
        THEN [quo |-> q0, rem |-> Fl(r0, re)]
        ELSE [quo |-> q0 - 1, rem |-> Fl(y.m, re + y.e)]

\* x < y
FLess(x, y) == x.m < y.m \/ (x.m = y.m /\ x.e < y.e)

\* What binary64 division adds to the exact quotient, in tau:
\*   fl(360/14) - 360/14 = 1/(7 * 2^47),   fl(180/14) is half of it,
\*   fl(36/10) - 36/10 = 1/(5 * 2^51),     fl(18/10) is half of it,
\*   fl(fl(360/14)/14) - 360/196 = 9/(49 * 2^52), the latitude one half of it;
\*   every other quotient of the four bases is exact.
SliceErr(deg, B) ==
    IF B = 14 THEN (IF deg = 360 THEN 2240 ELSE 1120) ELSE 0
SubSliceErr(deg, B) ==
    IF B = 14 THEN (IF deg = 360 THEN 90 ELSE 45)
    ELSE IF B = 10 THEN (IF deg = 360 THEN 196 ELSE 98)
    ELSE 0

\* lines 33-34 / 178-179
LON_SLICE_SIZE == Fl((360 * Q) \div encoding_base, SliceErr(360, encoding_base))
LAT_SLICE_SIZE == Fl((180 * Q) \div encoding_base, SliceErr(180, encoding_base))
\* lines 54-55: LON_SLICE_SIZE / encoding_base, LAT_SLICE_SIZE / encoding_base
LonSubSlice ==
    Fl((360 * Q) \div (encoding_base * encoding_base),
       SubSliceErr(360, encoding_base))
LatSubSlice ==
    Fl((180 * Q) \div (encoding_base * encoding_base),
       SubSliceErr(180, encoding_base))

(***************************************************************************)
(* Lines 36-40: the symbol codec                                           *)
(***************************************************************************)
\* base_char_set[value]: Python indexing, negative values count from the end
encode_base_str(value) ==
    IF value >= 0 /\ value < encoding_base
    THEN Ok(<<base_char_set[value + 1]>>)
    ELSE IF value < 0 /\ value >= 0 - encoding_base
    THEN Ok(<<base_char_set[encoding_base + value + 1]>>)
    ELSE Raise("IndexError")

\* base_char_set.index(char)
decode_base_str(char) ==
    LET i == IndexOf(base_char_set, char, 1)
    IN  IF i < 0 THEN Raise("ValueError") ELSE Ok(i)

(***************************************************************************)
(* Lines 47-57: encode_grid                                                *)
(***************************************************************************)
\* the four digit indices (lines 49-55)
GridIndices(lon, lat) ==
    LET lon1 == FAdd(lon, Deg(180))
        lat1 == FAdd(lat, Deg(90))
        lonD == FDivMod(lon1, LON_SLICE_SIZE)
        latD == FDivMod(lat1, LAT_SLICE_SIZE)
    IN  [lon_major |-> lonD.quo,
         lat_major |-> latD.quo,
         lon_sub |-> FDivMod(lonD.rem, LonSubSlice).quo,
         lat_sub |-> FDivMod(latD.rem, LatSubSlice).quo]

\* line 57: the order in which the four symbols are written
GridLayout(g) == << g.lon_major, g.lon_sub, g.lat_major, g.lat_sub >>

encode_grid(lon, lat) ==
    LET d == GridLayout(GridIndices(lon, lat))
        s == [i \in 1..4 |-> encode_base_str(d[i])]
    IN  IF \E i \in 1..4 : s[i].exc # "none"
        THEN Raise("IndexError")
        ELSE Ok(s[1].val \o s[2].val \o s[3].val \o s[4].val)

(***************************************************************************)
(* Lines 59-72: the counter codec                                          *)
(***************************************************************************)
RECURSIVE CounterDigits(_)
\* lines 60-63: the first loop of encode_counter
CounterDigits(counter) ==
    IF counter > 0
    THEN CounterDigits(counter \div encoding_base)
             \o <<base_char_set[(counter % encoding_base) + 1]>>
    ELSE <<>>

RECURSIVE PadLeftCut(_, _)
\* PadLeft that also cuts the code down to zero_padding symbols
PadLeftCut(encoded, zero_padding) ==
    IF Len(encoded) < zero_padding
    THEN PadLeftCut(<<base_char_set[1]>> \o encoded, zero_padding)
    ELSE IF zero_padding > 0 /\ Len(encoded) > zero_padding
    THEN SubSeq(encoded, Len(encoded) - zero_padding + 1, Len(encoded))
    ELSE encoded

RECURSIVE PadLeft(_, _)
\* lines 64-65: the second loop of encode_counter
PadLeft(encoded, zero_padding) ==
    IF Len(encoded) < zero_padding
    THEN PadLeft(<<base_char_set[1]>> \o encoded, zero_padding)
    ELSE encoded

encode_counter(counter, zero_padding) ==
    PadLeft(CounterDigits(counter), zero_padding)

RECURSIVE DecodeFromDecimal(_, _, _)
\* DecodeFrom with the base written as the literal 10
DecodeFromDecimal(encoded_counter, i, counter) ==
    IF i > Len(encoded_counter) THEN Ok(counter)
    ELSE LET d == decode_base_str(encoded_counter[i])
         IN  IF d.exc # "none" THEN Raise(d.exc)
             ELSE DecodeFromDecimal(encoded_counter, i + 1,
                                    counter * 10 + d.val)

RECURSIVE DecodeFrom(_, _, _)
\* lines 69-72: the loop of decode_counter from position i with value counter
DecodeFrom(encoded_counter, i, counter) ==
    IF i > Len(encoded_counter) THEN Ok(counter)
    ELSE LET d == decode_base_str(encoded_counter[i])
         IN  IF d.exc # "none" THEN Raise(d.exc)
             ELSE DecodeFrom(encoded_counter, i + 1,
                             counter * encoding_base + d.val)

decode_counter(encoded_counter) == DecodeFrom(encoded_counter, 1, 0)

(***************************************************************************)
(* Values the variables of one part hold while another part is explored    *)
(***************************************************************************)
NoArgs == [base |-> "B10", prefix |-> <<>>, zero_padding |-> 0,
           has_input |-> FALSE, has_output |-> FALSE, test |-> FALSE]
NoFile == [written |-> FALSE, rows |-> <<>>]
NoCall == [fn |-> "none", value |-> 0, counter |-> 0, zero_padding |-> 0,
           lon |-> Deg(0), lat |-> Deg(0), existing |-> {}]
NoRet == [stage |-> "none", symbol |-> Ok(<<>>), encoded |-> <<>>,
          decoded |-> Ok(0), grid |-> Ok(<<>>), new_counter |-> 0]
\* line 165-168 with nothing on the command line
NoArgv == [base |-> "B10", test |-> FALSE, given |-> 0, prefix |-> <<"R">>,
           zero_padding |-> 3]
\* a shapefile that read_file can read and that has the ReefID column
GoodFile == [readable |-> TRUE, has_ReefID |-> TRUE]
EmptyDict == [k \in {} |-> 0]

AllocatorIdle ==
    /\ argv = NoArgv
    /\ input_file = GoodFile
    /\ args = NoArgs
    /\ pc = "idle"
    /\ input = <<>>
    /\ gdf = <<>>
    /\ ri = 0
    /\ grid_feature_count = EmptyDict
    /\ grid_existing_ids = EmptyDict
    /\ grid_schemes = <<>>
    /\ groups = <<>>
    /\ sub_gdf = <<>>
    /\ output = NoFile
    /\ run = 0
    /\ out1 = [input |-> <<>>, output |-> NoFile]
    /\ sort_ties = "first"

allocVars == << argv, input_file, args, pc, input, gdf, ri, grid_feature_count,
                grid_existing_ids, grid_schemes, groups, sub_gdf, output,
                run, out1, sort_ties >>

(***************************************************************************)
(* Direct calls of the counter codec                                       *)
(***************************************************************************)
Alphabets == { BASE_CHAR_SETS[n] : n \in DOMAIN BASE_CHAR_SETS }

InitCounter ==
    /\ AllocatorIdle
    /\ base_char_set \in Alphabets
    /\ call \in [fn : {"encode_counter"}, value : {0},
                 counter : 0..MaxCounter,
                 zero_padding : (0 - 1)..MaxPadding,
                 lon : {Deg(0)}, lat : {Deg(0)}, existing : {{}}]
    /\ ret = NoRet

CallEncodeCounter ==
    /\ call.fn = "encode_counter"
    /\ ret.stage = "none"
    /\ ret' = [ret EXCEPT !.stage = "encoded",
                          !.encoded = encode_counter(call.counter,
                                                     call.zero_padding)]
    /\ UNCHANGED << allocVars, base_char_set, call >>

CallDecodeCounter ==
    /\ call.fn = "encode_counter"
    /\ ret.stage = "encoded"
    /\ ret' = [ret EXCEPT !.stage = "decoded",
                          !.decoded = decode_counter(ret.encoded)]
    /\ UNCHANGED << allocVars, base_char_set, call >>

NextCounter == CallEncodeCounter \/ CallDecodeCounter

SpecCounter == InitCounter /\ [][NextCounter]_vars

(***************************************************************************)
(* Direct calls of encode_base_str                                         *)
(***************************************************************************)
InitDigit ==
    /\ AllocatorIdle
    /\ base_char_set \in Alphabets
    /\ call \in [fn : {"encode_base_str"}, value : (0 - MaxDigit)..MaxDigit,
                 counter : {0}, zero_padding : {0}, lon : {Deg(0)},
                 lat : {Deg(0)}, existing : {{}}]
    /\ ret = NoRet

CallEncodeBaseStr ==
    /\ call.fn = "encode_base_str"
    /\ ret.stage = "none"
    /\ ret' = [ret EXCEPT !.stage = "symbol",
                          !.symbol = encode_base_str(call.value)]
    /\ UNCHANGED << allocVars, base_char_set, call >>

NextDigit == CallEncodeBaseStr

SpecDigit == InitDigit /\ [][NextDigit]_vars

(***************************************************************************)
(* Direct calls of encode_grid                                             *)
(***************************************************************************)
\* the two greatest binary64 values below 180 and below 90 (2^-45 = 62720 tau)
Below180(n) == Fl(180 * Q, 0 - n * 62720)
Below90(n) == Fl(90 * Q, 0 - n * 31360)

SweepStep == (9 * Q) \div 2      \* 4.5 degrees

TestLons ==
    { x \in { Fl(k * SweepStep - 180 * Q, 0) : k \in 0..LonSweep } :
        FLess(x, Deg(180)) }
    \cup { Deg(147), Below180(1), Below180(2) }

TestLats ==
    { x \in { Fl(k * SweepStep - 90 * Q, 0) : k \in 0..LatSweep } :
        FLess(x, Deg(90)) }
    \cup { Deg(0 - 20), Below90(1), Below90(2) }

InitGrid ==
    /\ AllocatorIdle
    /\ base_char_set \in Alphabets
    /\ call \in [fn : {"encode_grid"}, value : {0}, counter : {0},
                 zero_padding : {0}, lon : TestLons, lat : TestLats,
                 existing : {{}}]
    /\ ret = NoRet

CallEncodeGrid ==
    /\ call.fn = "encode_grid"
    /\ ret.stage = "none"
    /\ ret' = [ret EXCEPT !.stage = "grid",
                          !.grid = encode_grid(call.lon, call.lat)]
    /\ UNCHANGED << allocVars, base_char_set, call >>

NextGrid == CallEncodeGrid

SpecGrid == InitGrid /\ [][NextGrid]_vars

(***************************************************************************)
(* Python dicts as functions                                               *)
(***************************************************************************)
DictSet(d, k, v) == [x \in (DOMAIN d) \cup {k} |-> IF x = k THEN v ELSE d[x]]
DictGet(d, k, default) == IF k \in DOMAIN d THEN d[k] ELSE default
\* Max that answers with the smaller value
MaxAsMin(a, b) == IF a >= b THEN b ELSE a

Max(a, b) == IF a >= b THEN a ELSE b

(***************************************************************************)
(* Feature collections the runs are started on                             *)
(***************************************************************************)
Row(lon, lat, id) == [lon |-> lon, lat |-> lat, ReefID |-> id]

\* centroids: P1 and P2 have the same longitude + latitude, P3 a greater one,
\* all three in one grid cell of every base; P4 lies in another cell
P1 == [lon |-> Deg(147), lat |-> Deg(0 - 20)]
P2 == [lon |-> Fl(147 * Q + Q \div 64, 0), lat |-> Fl(0 - 20 * Q - Q \div 64, 0)]
P3 == [lon |-> Fl(147 * Q + Q \div 32, 0), lat |-> Deg(0 - 20)]
P4 == [lon |-> Deg(0), lat |-> Deg(0)]

\* the grid code of P1's cell in each base
HomeCell ==
    ("B32_CAPS" :> <<"X","4","E","G">>) @@ ("B32_LOWER" :> <<"x","4","e","g">>) @@
    ("B10" :> <<"9","0","3","8">>) @@ ("B16" :> <<"E","8","6","3">>) @@
    ("B14" :> <<"E","C","7","8">>)

\* MkId with the grid code written before the prefix
MkIdGridFirst(prefix, grid, code) ==
    grid \o <<Hyphen>> \o prefix \o <<Hyphen>> \o code

MkId(prefix, grid, code) == prefix \o <<Hyphen>> \o grid \o <<Hyphen>> \o code

\* identifiers found in input files, for the alphabet named b
ExistingIds(b) ==
    LET cs == BASE_CHAR_SETS[b]
        g == HomeCell[b]
    IN  [ zero3 |-> MkId(<<"R">>, g, <<cs[1], cs[1], cs[1]>>),  \* counter 0, width 3
          five2 |-> MkId(<<"R">>, g, <<cs[1], cs[6]>>),         \* counter 5, width 2
          other |-> MkId(<<"A">>, g, <<cs[1], cs[1], cs[1]>>),  \* another prefix
          short |-> <<"R">> \o <<Hyphen>> \o g,                 \* two parts only
          dec1  |-> MkId(<<"R">>, g, <<"0", "0", "1">>) ]       \* written in decimal

TestRows(b) ==
    LET id == ExistingIds(b)
    IN  { Row(P1.lon, P1.lat, None), Row(P2.lon, P2.lat, None),
          Row(P3.lon, P3.lat, None), Row(P4.lon, P4.lat, None),
          Row(P1.lon, P1.lat, id.zero3), Row(P3.lon, P3.lat, id.five2),
          Row(P4.lon, P4.lat, id.other), Row(P1.lon, P1.lat, id.short),
          Row(P2.lon, P2.lat, id.dec1) }

Collections(b) == UNION { [1..n -> TestRows(b)] : n \in 0..MaxFeatures }

\* two rows that will be given an identifier have the same geom.x + geom.y
HasEqualKeys(rows) ==
    \E i, j \in 1..Len(rows) :
        /\ i < j
        /\ rows[i].ReefID = None
        /\ rows[j].ReefID = None
        /\ FAdd(rows[i].lon, rows[i].lat) = FAdd(rows[j].lon, rows[j].lat)

\* the alphabets the allocation runs are started with
RunBases == { "B10", "B32_CAPS" }

Prefixes == { <<"R">>, <<"A", Hyphen, "B">> }
ZeroPaddings == { 1, 3 }

(***************************************************************************)
(* Init: the process has been started, nothing has run yet                 *)
(***************************************************************************)
FreshProcess ==
    /\ base_char_set = BASE_B10          \* line 30
    /\ pc = "main"
    /\ gdf = <<>>
    /\ ri = 0
    /\ grid_feature_count = EmptyDict
    /\ grid_existing_ids = EmptyDict
    /\ grid_schemes = <<>>
    /\ groups = <<>>
    /\ sub_gdf = <<>>

\* lines 164-172: the namespace parse_args builds.  The four positionals are
\* optional (nargs="?"): a word that is not given leaves input and output
\* None, prefix 'R' and zero_padding 3.  An unknown --base stays as given and
\* is rejected in Main.
parse_args(v) ==
    [base |-> v.base,
     prefix |-> IF v.given >= 3 THEN v.prefix ELSE <<"R">>,
     zero_padding |-> IF v.given >= 4 THEN v.zero_padding ELSE 3,
     has_input |-> v.given >= 1,
     has_output |-> v.given >= 2,
     test |-> v.test]

\* command lines of allocation runs
RunArgvs ==
    [base : RunBases, test : {FALSE}, given : {4}, prefix : Prefixes,
     zero_padding : ZeroPaddings]

\* command lines with a bad --base, with --test, with fewer than four
\* positionals, with an empty prefix or a zero padding
ShortArgvs ==
    { v \in [base : DOMAIN BASE_CHAR_SETS \cup {"B8"}, test : BOOLEAN,
             given : 0..4, prefix : {<<>>, <<"R">>}, zero_padding : {0, 3}] :
        /\ v.given < 3 => v.prefix = <<"R">>
        /\ v.given < 4 => v.zero_padding = 3 }

\* files read_file cannot read, and files without the ReefID column
BadFiles ==
    { [readable |-> FALSE, has_ReefID |-> TRUE],
      [readable |-> TRUE, has_ReefID |-> FALSE] }

UnlabeledRows == { Row(P1.lon, P1.lat, None), Row(P3.lon, P3.lat, None),
                   Row(P4.lon, P4.lat, None) }

Init ==
    /\ FreshProcess
    /\ \/ /\ argv \in RunArgvs
          /\ input_file = GoodFile
          /\ input \in Collections(argv.base)
          \* the order of equal keys only shows when two rows that get an
          \* identifier have equal keys
          /\ sort_ties \in (IF HasEqualKeys(input) THEN {"first", "last"}
                                                  ELSE {"first"})
       \/ /\ argv \in ShortArgvs
          /\ input_file = GoodFile
          /\ input = << Row(P1.lon, P1.lat, None) >>
          /\ sort_ties = "first"
       \/ /\ argv = [base |-> "B10", test |-> FALSE, given |-> 4,
                      prefix |-> <<"R">>, zero_padding |-> 3]
          /\ input_file \in BadFiles
          /\ input \in UNION { [1..n -> UnlabeledRows] : n \in 0..2 }
          /\ sort_ties = "first"
    /\ args = parse_args(argv)
    /\ output = NoFile
    /\ run = "first"
    /\ out1 = [input |-> <<>>, output |-> NoFile]
    /\ call = NoCall
    /\ ret = NoRet

(***************************************************************************)
(* Lines 163-186: main                                                     *)
(***************************************************************************)
\* AllGiven without the test of args.output
AllGivenButOutput(a) ==
    a.has_input /\ a.prefix # <<>> /\ a.zero_padding # 0

\* line 184: all([args.input, args.output, args.prefix, args.zero_padding])
AllGiven(a) ==
    a.has_input /\ a.has_output /\ a.prefix # <<>> /\ a.zero_padding # 0

Main ==
    /\ pc = "main"
    /\ IF args.base \notin DOMAIN BASE_CHAR_SETS
       THEN /\ pc' = "usage_error"       \* parse_args rejects the choice
            /\ UNCHANGED base_char_set
       ELSE /\ base_char_set' = BASE_CHAR_SETS[args.base]
            /\ pc' = IF args.test THEN "run_tests"
                     ELSE IF ~AllGiven(args) THEN "usage_error"
                     ELSE "load"
    /\ UNCHANGED << argv, input_file, args, input, gdf, ri, grid_feature_count,
                    grid_existing_ids, grid_schemes, groups, sub_gdf, output,
                    run, out1, sort_ties, call, ret >>

(***************************************************************************)
(* Lines 151-161: run_tests                                                *)
(***************************************************************************)
\* line 154
test_cases == << [lon |-> Deg(147), lat |-> Deg(0 - 20),
                  expected |-> <<"X","E","4","G">>] >>

RunTests ==
    /\ pc = "run_tests"
    /\ LET t == test_cases[1]
           result == encode_grid(t.lon, t.lat)
       IN  /\ ret' = [ret EXCEPT !.stage = "test", !.grid = result]
           /\ pc' = IF result.exc # "none" THEN "crashed"
                    ELSE IF result.val # t.expected THEN "AssertionError"
                    ELSE "tests_passed"
    /\ UNCHANGED << argv, input_file, args, base_char_set, input, gdf, ri, grid_feature_count,
                    grid_existing_ids, grid_schemes, groups, sub_gdf, output,
                    run, out1, sort_ties, call >>

(***************************************************************************)
(* Lines 74-149: process_shapefile                                         *)
(***************************************************************************)
\* lines 76-89: read the file (geometries are held by their centroid, already
\* in EPSG:4326) and create the two empty dictionaries
\* read_file that answers an unreadable file with an empty collection
read_file_or_empty(file, rows) ==
    Ok(IF file.readable THEN rows ELSE <<>>)

\* line 77: read_file raises when the file cannot be read
read_file(file, rows) ==
    IF file.readable THEN Ok(rows) ELSE Raise("DriverError")

\* lines 80-82: a missing ReefID column is added, empty in every row
WithReefIDColumn(file, rows) ==
    IF file.has_ReefID THEN rows
    ELSE [i \in 1..Len(rows) |-> [rows[i] EXCEPT !.ReefID = None]]

Load ==
    /\ pc = "load"
    /\ LET read == read_file(input_file, input)
       IN  IF read.exc # "none"
           THEN /\ pc' = "crashed"
                /\ UNCHANGED << gdf, ri >>
           ELSE /\ gdf' = WithReefIDColumn(input_file, read.val)
                /\ ri' = 1
                /\ pc' = "register"
    /\ grid_feature_count' = EmptyDict
    /\ grid_existing_ids' = EmptyDict
    /\ UNCHANGED << argv, input_file, args, base_char_set, input, grid_schemes, groups, sub_gdf,
                    output, run, out1, sort_ties, call, ret >>

\* line 94: pd.notna(row['ReefID'])
HasId(row) == row.ReefID # None

\* lines 98-104: the occupied sets after registering (prefix, grid, code)
RegisterExisting(ids, existing_prefix, grid_scheme, feature_counter) ==
    LET ids1 == IF existing_prefix \notin DOMAIN ids
                THEN DictSet(ids, existing_prefix, EmptyDict) ELSE ids
        cell == DictGet(ids1[existing_prefix], grid_scheme, {})
    IN  DictSet(ids1, existing_prefix,
                DictSet(ids1[existing_prefix], grid_scheme,
                        cell \cup {feature_counter}))

\* RegisterCount without the max of line 108: the last identifier decides
RegisterCountLast(counts, existing_prefix, grid_scheme, decoded) ==
    LET counts1 == IF existing_prefix \notin DOMAIN grid_existing_ids
                   THEN DictSet(counts, existing_prefix, EmptyDict) ELSE counts
    IN  DictSet(counts1, existing_prefix,
                DictSet(counts1[existing_prefix], grid_scheme, decoded + 1))

\* lines 98-100 and 106-109: the counts after registering a decoded counter
RegisterCount(counts, existing_prefix, grid_scheme, decoded) ==
    LET counts1 == IF existing_prefix \notin DOMAIN grid_existing_ids
                   THEN DictSet(counts, existing_prefix, EmptyDict) ELSE counts
        cur == DictGet(counts1[existing_prefix], grid_scheme, 0)
    IN  DictSet(counts1, existing_prefix,
                DictSet(counts1[existing_prefix], grid_scheme,
                        Max(cur, decoded + 1)))

\* lines 93-109: one iteration of the loop over the rows
RegisterRow ==
    /\ pc = "register"
    /\ ri <= Len(gdf)
    /\ LET row == gdf[ri]
           parts == Split(row.ReefID)
       IN  IF ~HasId(row)
           THEN /\ pc' = pc
                /\ UNCHANGED << grid_feature_count, grid_existing_ids >>
           ELSE IF Len(parts) # 3
           THEN /\ pc' = "crashed"       \* line 96: ValueError on unpacking
                /\ UNCHANGED << grid_feature_count, grid_existing_ids >>
           ELSE LET decoded == decode_counter(parts[3])
                IN  /\ grid_existing_ids' =
                           RegisterExisting(grid_existing_ids, parts[1],
                                            parts[2], parts[3])
                    /\ IF decoded.exc # "none"
                       THEN /\ pc' = "crashed"   \* line 109: ValueError
                            /\ UNCHANGED grid_feature_count
                       ELSE /\ pc' = pc
                            /\ grid_feature_count' =
                                   RegisterCount(grid_feature_count, parts[1],
                                                 parts[2], decoded.val)
    /\ ri' = ri + 1
    /\ UNCHANGED << argv, input_file, args, base_char_set, input, gdf, grid_schemes, groups,
                    sub_gdf, output, run, out1, sort_ties, call, ret >>

RECURSIVE Unique(_)
\* Series.unique(): the distinct values in order of first appearance
Unique(s) ==
    IF s = <<>> THEN <<>>
    ELSE LET r == Unique(SubSeq(s, 1, Len(s) - 1))
             x == s[Len(s)]
         IN  IF \E i \in 1..Len(r) : r[i] = x THEN r ELSE Append(r, x)

\* lines 112-118: centroid sums are taken when sorting (CentroidSum); the grid
\* code of every row, labelled or not, is computed here
ComputeGrid ==
    /\ pc = "register"
    /\ ri > Len(gdf)
    /\ LET codes == [i \in 1..Len(gdf) |-> encode_grid(gdf[i].lon, gdf[i].lat)]
       IN  IF \E i \in 1..Len(gdf) : codes[i].exc # "none"
           THEN /\ pc' = "crashed"       \* line 117: IndexError
                /\ UNCHANGED << grid_schemes, groups >>
           ELSE /\ grid_schemes' = [i \in 1..Len(gdf) |-> codes[i].val]
                /\ groups' = Unique([i \in 1..Len(gdf) |-> codes[i].val])
                /\ pc' = "assign"
    /\ sub_gdf' = <<>>
    /\ UNCHANGED << argv, input_file, args, base_char_set, input, gdf, ri, grid_feature_count,
                    grid_existing_ids, output, run, out1, sort_ties, call,
                    ret >>

\* CentroidSum with the opposite sign: the rows sort in descending order
CentroidSumNegated(row) ==
    LET s == FAdd(row.lon, row.lat) IN Fl(0 - s.m, 0 - s.e)

\* line 113: geom.x + geom.y
CentroidSum(row) == FAdd(row.lon, row.lat)

\* SortsBefore with an order of equal keys that changes from run to run
SortsBeforeByRun(i, j) ==
    LET a == FAdd(gdf[i].lon, gdf[i].lat)
        b == FAdd(gdf[j].lon, gdf[j].lat)
    IN  \/ FLess(a, b)
        \/ a = b /\ (IF run = "first" THEN i < j ELSE i > j)

\* line 119: row i is placed before row j by sort_values(by='centroid_sum');
\* quicksort leaves the order of equal keys to the build
SortsBefore(i, j) ==
    LET a == CentroidSum(gdf[i])
        b == CentroidSum(gdf[j])
    IN  \/ FLess(a, b)
        \/ a = b /\ (IF sort_ties = "first" THEN i < j ELSE i > j)

RECURSIVE SortValues(_)
\* the row positions S in sorted order
SortValues(S) ==
    IF S = {} THEN <<>>
    ELSE LET first == CHOOSE i \in S : \A j \in S \ {i} : SortsBefore(i, j)
         IN  <<first>> \o SortValues(S \ {first})

\* lines 118-119: the next grid code and its rows, sorted
NextGroup ==
    /\ pc = "assign"
    /\ sub_gdf = <<>>
    /\ groups # <<>>
    /\ LET grid_scheme == Head(groups)
       IN  sub_gdf' = SortValues({ i \in 1..Len(gdf) :
                                     grid_schemes[i] = grid_scheme })
    /\ groups' = Tail(groups)
    /\ UNCHANGED << argv, input_file, args, base_char_set, pc, input, gdf, ri,
                    grid_feature_count, grid_existing_ids, grid_schemes,
                    output, run, out1, sort_ties, call, ret >>

\* NeedsId without the test of line 122: every row is given a new identifier
NeedsIdAlways(row) == TRUE

\* line 122: pd.isna(row['ReefID'])
NeedsId(row) == row.ReefID = None

\* WithPrefix without the test of line 123: the entry is emptied every time
WithPrefixReset(d, prefix) == DictSet(d, prefix, EmptyDict)

\* lines 123-128: both dictionaries get the prefix, the count gets the cell
WithPrefix(d, prefix) ==
    IF prefix \notin DOMAIN grid_feature_count
    THEN DictSet(d, prefix, EmptyDict) ELSE d

\* Occupied that looks for the code in every cell of the prefix
OccupiedAnyCell(ids, prefix, grid_scheme, encoded_counter) ==
    \E g \in DOMAIN ids[prefix] : encoded_counter \in ids[prefix][g]

\* line 133: the condition of the retry loop
Occupied(ids, prefix, grid_scheme, encoded_counter) ==
    /\ grid_scheme \in DOMAIN ids[prefix]
    /\ encoded_counter \in ids[prefix][grid_scheme]

\* FirstFree with an if in place of the while of line 133: one retry only
FirstFreeOnce(ids, prefix, grid_scheme, new_counter, zero_padding) ==
    IF Occupied(ids, prefix, grid_scheme,
                encode_counter(new_counter, zero_padding))
    THEN new_counter + 1
    ELSE new_counter

RECURSIVE FirstFree(_, _, _, _, _)
\* lines 131-135: the counter the retry loop stops at
FirstFree(ids, prefix, grid_scheme, new_counter, zero_padding) ==
    IF Occupied(ids, prefix, grid_scheme,
                encode_counter(new_counter, zero_padding))
    THEN FirstFree(ids, prefix, grid_scheme, new_counter + 1, zero_padding)
    ELSE new_counter

\* StartCounter that takes the greatest count of the prefix over all cells
StartCounterAnyCell(counts, prefix, grid_scheme) ==
    LET all == { counts[prefix][g] : g \in DOMAIN counts[prefix] } \cup {0}
    IN  CHOOSE c \in all : \A d \in all : d <= c

\* lines 127-130: the count of the cell, 0 when the cell has none
StartCounter(counts, prefix, grid_scheme) ==
    DictGet(counts[prefix], grid_scheme, 0)

\* NextCount that leaves a gap after every counter
NextCountSkip(new_counter) == new_counter + 2

\* NextCount without the increment of line 140
NextCountSame(new_counter) == new_counter

\* line 140: the count stored after new_counter was used
NextCount(new_counter) == new_counter + 1

\* lines 121-140: one iteration of the loop over the rows of the group
AssignRow ==
    /\ pc = "assign"
    /\ sub_gdf # <<>>
    /\ LET idx == Head(sub_gdf)
           row == gdf[idx]
           prefix == args.prefix
           grid_scheme == grid_schemes[idx]
           ids1 == WithPrefix(grid_existing_ids, prefix)
           counts1 == WithPrefix(grid_feature_count, prefix)
           start == StartCounter(counts1, prefix, grid_scheme)
           new_counter == FirstFree(ids1, prefix, grid_scheme, start,
                                    args.zero_padding)
           encoded_counter == encode_counter(new_counter, args.zero_padding)
           new_reef_id == MkId(prefix, grid_scheme, encoded_counter)
       IN  IF NeedsId(row)
           THEN /\ gdf' = [gdf EXCEPT ![idx].ReefID = new_reef_id]
                /\ grid_existing_ids' = ids1
                /\ grid_feature_count' =
                       DictSet(counts1, prefix,
                               DictSet(counts1[prefix], grid_scheme,
                                       NextCount(new_counter)))
           ELSE UNCHANGED << gdf, grid_existing_ids, grid_feature_count >>
    /\ sub_gdf' = Tail(sub_gdf)
    /\ UNCHANGED << argv, input_file, args, base_char_set, pc, input, ri, grid_schemes, groups,
                    output, run, out1, sort_ties, call, ret >>

\* lines 142-149: drop the temporary columns and write the file
Save ==
    /\ pc = "assign"
    /\ sub_gdf = <<>>
    /\ groups = <<>>
    /\ output' = [written |-> TRUE, rows |-> gdf]
    /\ pc' = "done"
    /\ UNCHANGED << argv, input_file, args, base_char_set, input, gdf, ri, grid_feature_count,
                    grid_existing_ids, grid_schemes, groups, sub_gdf, run,
                    out1, sort_ties, call, ret >>

Next ==
    \/ Main
    \/ RunTests
    \/ Load
    \/ RegisterRow
    \/ ComputeGrid
    \/ NextGroup
    \/ AssignRow
    \/ Save

Spec == Init /\ [][Next]_vars

(***************************************************************************)
(* Allocation runs over collections with centroids outside                 *)
(* [-180, 180) x [-90, 90)                                                 *)
(***************************************************************************)
DomainRows ==
    { Row(P1.lon, P1.lat, None), Row(P4.lon, P4.lat, None),
      Row(Deg(180), Deg(0), None),          \* lon = 180
      Row(Deg(0 - 181), Deg(0), None),      \* lon < -180
      Row(Deg(0), Deg(90), None) }          \* lat = 90

InitOutOfDomain ==
    /\ FreshProcess
    /\ argv \in [base : DOMAIN BASE_CHAR_SETS, test : {FALSE}, given : {4},
                 prefix : {<<"R">>}, zero_padding : {3}]
    /\ input_file = GoodFile
    /\ input \in UNION { [1..n -> DomainRows] : n \in 1..MaxFeatures }
    /\ sort_ties \in (IF HasEqualKeys(input) THEN {"first", "last"}
                                            ELSE {"first"})
    /\ args = parse_args(argv)
    /\ output = NoFile
    /\ run = "first"
    /\ out1 = [input |-> <<>>, output |-> NoFile]
    /\ call = NoCall
    /\ ret = NoRet

\* process_shapefile run from main without --test
NextRun ==
    \/ Main
    \/ Load
    \/ RegisterRow
    \/ ComputeGrid
    \/ NextGroup
    \/ AssignRow
    \/ Save

SpecOutOfDomain == InitOutOfDomain /\ [][NextRun]_vars

(***************************************************************************)
(* Direct runs of the retry loop of lines 130-135                          *)
(***************************************************************************)
RetryPrefix == <<"R">>
RetryGrid == << base_char_set[1], base_char_set[1], base_char_set[1],
               base_char_set[1] >>

\* counter codes an occupied set can hold: those of 0..MaxExisting in the
\* width of the run, and one of another width
RetryCodes(zero_padding) ==
    { encode_counter(n, zero_padding) : n \in 0..MaxExisting }
    \cup { encode_counter(1, zero_padding + 1) }

\* grid_existing_ids with one prefix; the cell has an entry when some code
\* was registered for it
RetryIds(existing) ==
    DictSet(EmptyDict, RetryPrefix,
            IF existing = {} THEN EmptyDict
            ELSE DictSet(EmptyDict, RetryGrid, existing))

InitRetry ==
    /\ AllocatorIdle
    /\ base_char_set \in Alphabets
    /\ \E w \in {1, 2} :
           call \in [fn : {"retry"}, value : {0}, counter : 0..MaxExisting,
                     zero_padding : {w}, lon : {Deg(0)}, lat : {Deg(0)},
                     existing : SUBSET RetryCodes(w)]
    /\ ret = NoRet

CallRetry ==
    /\ call.fn = "retry"
    /\ ret.stage = "none"
    /\ ret' = [ret EXCEPT !.stage = "retry",
                          !.new_counter =
                              FirstFree(RetryIds(call.existing), RetryPrefix,
                                        RetryGrid, call.counter,
                                        call.zero_padding)]
    /\ UNCHANGED << allocVars, base_char_set, call >>

NextRetry == CallRetry

SpecRetry == InitRetry /\ [][NextRetry]_vars

(***************************************************************************)
(* The program is started a second time                                    *)
(***************************************************************************)
RECURSIVE Reverse(_)
Reverse(s) == IF s = <<>> THEN <<>> ELSE Append(Reverse(Tail(s)), Head(s))

\* a new process on the collection file, with the arguments of the first run
StartAgain(file, kind) ==
    /\ pc = "done"
    /\ run = "first"
    /\ out1' = [input |-> input, output |-> output]
    /\ input' = file
    \* the file the first run wrote can be read and has the column
    /\ input_file' = IF kind = "on_output" THEN GoodFile ELSE input_file
    /\ output' = NoFile
    /\ run' = kind
    /\ base_char_set' = BASE_B10
    /\ pc' = "main"
    /\ gdf' = <<>>
    /\ ri' = 0
    /\ grid_feature_count' = EmptyDict
    /\ grid_existing_ids' = EmptyDict
    /\ grid_schemes' = <<>>
    /\ groups' = <<>>
    /\ sub_gdf' = <<>>
    /\ UNCHANGED << argv, args, sort_ties, call, ret >>

\* on the file the first run wrote
RunOnOutput == StartAgain(output.rows, "on_output")
\* on the file the first run read
RunOnSameInput == StartAgain(input, "same_input")
\* on the rows the first run read, in the opposite order
RunOnReordered == StartAgain(Reverse(input), "reordered")

NextOnOutput == Next \/ RunOnOutput
SpecOnOutput == Init /\ [][NextOnOutput]_vars

NextSameInput == Next \/ RunOnSameInput
SpecSameInput == Init /\ [][NextSameInput]_vars

NextReordered == Next \/ RunOnReordered
SpecReordered == Init /\ [][NextReordered]_vars

(***************************************************************************)
(* Properties                                                              *)
(***************************************************************************)
Labeled(rows) == { i \in 1..Len(rows) : rows[i].ReefID # None }
Unlabeled(rows) == { i \in 1..Len(rows) : rows[i].ReefID = None }

\* no two rows carry the same identifier
IdsDistinct(rows) ==
    \A i, j \in Labeled(rows) : i # j => rows[i].ReefID # rows[j].ReefID

\* C1: every feature that has an identifier when process_shapefile starts has
\* exactly that identifier in the written output, whatever the collection, the
\* prefix, the padding and the unlabeled features next to it.
C1_ExistingIdsKept ==
    output.written =>
        /\ Len(output.rows) = Len(input)
        /\ \A i \in Labeled(input) : output.rows[i].ReefID = input[i].ReefID

\* a written output in which a labeled feature shares its cell with a feature
\* that was given an identifier by the run
C1_Witness ==
    /\ output.written
    /\ \E i \in Labeled(input), j \in Unlabeled(input) :
          /\ grid_schemes[i] = grid_schemes[j]
          /\ output.rows[j].ReefID # None

\* C2 as stated: after an allocation run no two features of the output share
\* an identifier.
C2_OutputIdsDistinct == output.written => IdsDistinct(output.rows)

\* C2 as amended: when the identifiers of the input are pairwise distinct, no
\* two features of the output share an identifier.
C2_DistinctIdsPreserved ==
    (output.written /\ IdsDistinct(input)) => IdsDistinct(output.rows)

\* distinct input identifiers, one of them in the run's prefix and cell, and
\* two features of that cell given identifiers by the run
C2_Witness ==
    /\ output.written
    /\ IdsDistinct(input)
    /\ args.prefix = <<"R">>
    /\ \E i \in Labeled(input), j, k \in Unlabeled(input) :
          /\ j # k
          /\ input[i].ReefID = ExistingIds(args.base).zero3
          /\ grid_schemes[j] = HomeCell[args.base]
          /\ grid_schemes[k] = HomeCell[args.base]

\* C3 as stated: a second run on the output of the first, with the same
\* prefix, padding and base, succeeds and writes what it read.
C3_SecondRunIsNoOp ==
    run = "on_output" =>
        /\ pc \notin {"crashed", "usage_error"}
        /\ pc = "done" => (output.written /\ output.rows = input)

\* how many rows of the collection equal r
Occurrences(rows, r) == Cardinality({ i \in 1..Len(rows) : rows[i] = r })

\* the two collections hold the same features with the same identifiers
SameFeatures(a, b) ==
    /\ Len(a) = Len(b)
    /\ \A i \in 1..Len(a) : Occurrences(a, a[i]) = Occurrences(b, a[i])

\* C4 as stated: the same features in another row order are given the same
\* identifiers, also when two unlabeled features of a cell have equal
\* centroid longitude + latitude.
C4_RowOrderIndependent ==
    (run = "reordered" /\ pc = "done") =>
        SameFeatures(output.rows, out1.output.rows)

C6_CounterRoundTrip ==
    (ret.stage = "decoded" /\ call.zero_padding >= 0) =>
        ret.decoded = Ok(call.counter)

\* counter 0 with padding 0: the empty code, decoded to 0
C6_Witness ==
    /\ ret.stage = "decoded"
    /\ call.counter = 0
    /\ call.zero_padding = 0
    /\ ret.encoded = <<>>
    /\ ret.decoded = Ok(0)

Symbols == { base_char_set[i] : i \in 1..encoding_base }
IndexRange == 0..(encoding_base - 1)

\* C7 as stated: for every longitude in [-180, 180) and latitude in [-90, 90)
\* encode_grid returns, without raising, 4 symbols of the active alphabet, the
\* four digit indices lying in 0..B-1.
C7_GridCodeTotal ==
    ret.stage = "grid" =>
        /\ ret.grid.exc = "none"
        /\ Len(ret.grid.val) = 4
        /\ \A i \in 1..Len(ret.grid.val) : ret.grid.val[i] \in Symbols
        /\ LET g == GridIndices(call.lon, call.lat)
           IN  /\ g.lon_major \in IndexRange
               /\ g.lon_sub \in IndexRange
               /\ g.lat_major \in IndexRange
               /\ g.lat_sub \in IndexRange

\* C8 as stated: with BASE_B32_CAPS active, encode_grid(147, -20) is "XE4G".
C8_SelfCheckLiteral ==
    ( /\ ret.stage = "grid"
      /\ base_char_set = BASE_B32_CAPS
      /\ call.lon = Deg(147)
      /\ call.lat = Deg(0 - 20) ) =>
        ret.grid = Ok(<<"X", "E", "4", "G">>)

RECURSIVE Pow(_, _)
Pow(b, k) == IF k = 0 THEN 1 ELSE b * Pow(b, k - 1)

RECURSIVE DigitsFrom(_, _)
\* the least k >= from with B^k > n
DigitsFrom(n, from) ==
    IF Pow(encoding_base, from) > n THEN from ELSE DigitsFrom(n, from + 1)
\* the number of base-B digits of n (none for 0)
NumDigits(n) == DigitsFrom(n, 0)

\* the position of a symbol in the active alphabet
DigitOf(c) == CHOOSE d \in IndexRange : base_char_set[d + 1] = c

RECURSIVE PositionalSum(_, _)
\* the sum of digit * B^(distance from the last symbol) over s[i..]
PositionalSum(s, i) ==
    IF i > Len(s) THEN 0
    ELSE (IF DigitOf(s[i]) = 0 THEN 0
          ELSE DigitOf(s[i]) * Pow(encoding_base, Len(s) - i))
         + PositionalSum(s, i + 1)

\* C9: encode_counter(n, w) is n written in base B with the symbols of the
\* active alphabet, most significant first, padded on the left with the zero
\* symbol to max(w, number of digits of n) symbols and never cut to w; with
\* B10, (172, 3) gives "172" and (5, 3) gives "005".
C9_CounterEncoding ==
    ret.stage \in {"encoded", "decoded"} =>
        LET n == call.counter
            w == call.zero_padding
            enc == ret.encoded
        IN  /\ Len(enc) = Max(w, NumDigits(n))
            /\ \A i \in 1..Len(enc) : enc[i] \in Symbols
            /\ PositionalSum(enc, 1) = n
            /\ \A i \in 1..(Len(enc) - NumDigits(n)) : enc[i] = base_char_set[1]
            /\ (base_char_set = BASE_B10 /\ n = 172 /\ w = 3)
                   => enc = <<"1", "7", "2">>
            /\ (base_char_set = BASE_B10 /\ n = 5 /\ w = 3)
                   => enc = <<"0", "0", "5">>

\* a counter with more digits than the padding: 1000 with width 3 in B10
C9_Witness ==
    /\ ret.stage = "encoded"
    /\ base_char_set = BASE_B10
    /\ call.counter = 1000
    /\ call.zero_padding = 3
    /\ ret.encoded = <<"1", "0", "0", "0">>

\* C10 as stated: encode_counter(0, w) is w zero symbols for w >= 1 and, for
\* w <= 1, a single zero symbol, never the empty string (width 0 being
\* refused rather than answered with an empty code).
C10_ZeroEncoding ==
    (ret.stage \in {"encoded", "decoded"} /\ call.counter = 0) =>
        /\ call.zero_padding >= 1 =>
               /\ Len(ret.encoded) = call.zero_padding
               /\ \A i \in 1..Len(ret.encoded) :
                      ret.encoded[i] = base_char_set[1]
        /\ call.zero_padding <= 1 => ret.encoded = <<base_char_set[1]>>

\* C11 as stated: encode_base_str returns the symbol at index value when
\* 0 <= value < B, and raises IndexError for every value >= B and for every
\* value < 0: a negative value never yields a symbol.
C11_DigitContract ==
    (call.fn = "encode_base_str" /\ ret.stage = "symbol") =>
        IF call.value >= 0 /\ call.value < encoding_base
        THEN ret.symbol = Ok(<< base_char_set[call.value + 1] >>)
        ELSE ret.symbol.exc = "IndexError"

\* an identifier that does not split on '-' into exactly three parts
Malformed(id) == Len(Split(id)) # 3

\* the only defect of the input: some identifier is malformed, every other
\* identifier has three parts and a counter code of the active alphabet
OnlyMalformedIds(rows) ==
    /\ \E i \in 1..Len(rows) : HasId(rows[i]) /\ Malformed(rows[i].ReefID)
    /\ \A i \in 1..Len(rows) :
           (HasId(rows[i]) /\ ~Malformed(rows[i].ReefID)) =>
               decode_counter(Split(rows[i].ReefID)[3]).exc = "none"

\* C12 as stated: an existing identifier that does not split into exactly
\* three parts is not fatal: the run does not abort on it, it skips that
\* feature in the registration pass, goes on and still writes the output.
C12_MalformedIdNotFatal ==
    (pc \in {"crashed", "done"} /\ OnlyMalformedIds(input)) =>
        /\ pc = "done"
        /\ output.written

\* the centroid lies in [-180, 180) x [-90, 90)
InDomain(row) ==
    /\ ~FLess(row.lon, Deg(0 - 180))
    /\ FLess(row.lon, Deg(180))
    /\ ~FLess(row.lat, Deg(0 - 90))
    /\ FLess(row.lat, Deg(90))

\* C13 as stated: a feature whose centroid is outside [-180, 180) x [-90, 90)
\* (lon = 180, lat = 90, lon < -180) never aborts the run and is never given
\* an identifier with the grid code of a cell: it is skipped, the other
\* features are processed and the output is written.
C13_OutOfDomainNotFatal ==
    (\E i \in 1..Len(input) : ~InDomain(input[i])) =>
        /\ pc # "crashed"
        /\ output.written =>
               \A i \in 1..Len(input) :
                   ~InDomain(input[i]) => output.rows[i].ReefID = None

\* the process has ended in a usage error, or has not yet parsed its command
\* line, and has neither read the input nor written the output
AbortedBeforeIO ==
    /\ pc \in {"main", "usage_error"}
    /\ gdf = <<>>
    /\ ~output.written

BadBase == argv.base \notin DOMAIN BASE_CHAR_SETS

C15_InputErrorsAbort ==
    (~input_file.readable \/ ~input_file.has_ReefID) =>
        /\ pc # "done"
        /\ ~output.written

\* C15 as amended: when the input file cannot be read, the run fails and the
\* output is never written; when the ReefID column is absent, it is added
\* with no identifier in any row, the run goes on, and the output it writes
\* has an identifier for every feature.
C15_UnreadableInputAborts ==
    /\ ~input_file.readable =>
           /\ pc \in {"main", "load", "crashed"}
           /\ gdf = <<>>
           /\ ~output.written
    /\ (input_file.readable /\ ~input_file.has_ReefID) =>
           /\ pc # "crashed"
           /\ pc = "done" =>
                  /\ output.written
                  /\ Len(output.rows) = Len(input)
                  /\ \A i \in 1..Len(input) : HasId(output.rows[i])

\* read_file has raised on a file that cannot be read
C15_Witness ==
    /\ ~input_file.readable
    /\ pc = "crashed"
    /\ ~output.written

\* the exact widths of a major slice, in lattice units: 360/B and 180/B
ExactLonSlice == (360 * Q) \div encoding_base
ExactLatSlice == (180 * Q) \div encoding_base

\* lon + 180 = k * 360/B, and lat + 90 = k * 180/B
OnLonEdge(lon, k) == lon.e = 0 /\ lon.m + 180 * Q = k * ExactLonSlice
OnLatEdge(lat, k) == lat.e = 0 /\ lat.m + 90 * Q = k * ExactLatSlice

\* C16 as stated: a coordinate exactly on a major grid edge, lon + 180 =
\* k * 360/B or lat + 90 = k * 180/B with 0 <= k < B, is encoded with major
\* digit k and sub digit 0.
C16_MajorEdgeFloor ==
    ret.stage = "grid" =>
        \A k \in IndexRange :
            LET g == GridIndices(call.lon, call.lat)
            IN  /\ OnLonEdge(call.lon, k) =>
                       /\ g.lon_major = k
                       /\ g.lon_sub = 0
                       /\ ret.grid.exc = "none" =>
                              /\ ret.grid.val[1] = base_char_set[k + 1]
                              /\ ret.grid.val[2] = base_char_set[1]
                /\ OnLatEdge(call.lat, k) =>
                       /\ g.lat_major = k
                       /\ g.lat_sub = 0
                       /\ ret.grid.exc = "none" =>
                              /\ ret.grid.val[3] = base_char_set[k + 1]
                              /\ ret.grid.val[4] = base_char_set[1]

\* floor((x + offset) / (span/B)) and floor(((x + offset) mod (span/B)) /
\* (span/B/B)) over the reals, for a coordinate x and offset, span in degrees
ExactDigits(x, offset, span) ==
    LET slice == Fl((span * Q) \div encoding_base, 0)
        sub == Fl((span * Q) \div (encoding_base * encoding_base), 0)
        d == FDivMod(Fl(x.m + offset * Q, x.e), slice)
    IN  [major |-> d.quo, sub |-> FDivMod(d.rem, sub).quo]

\* C17 as stated: for an in-domain (lon, lat) encode_grid returns the four
\* symbols of lon_major, lon_sub, lat_major, lat_sub in this order, where
\* lon_major = floor((lon + 180) / (360/B)), lon_sub = floor(((lon + 180) mod
\* (360/B)) / (360/B/B)), and likewise for the latitude with 90 and 180.
C17_SymbolLayout ==
    ret.stage = "grid" =>
        LET lonD == ExactDigits(call.lon, 180, 360)
            latD == ExactDigits(call.lat, 90, 180)
        IN  ret.grid = Ok(<< base_char_set[lonD.major + 1],
                             base_char_set[lonD.sub + 1],
                             base_char_set[latD.major + 1],
                             base_char_set[latD.sub + 1] >>)

\* the registration loop has visited every row and nothing has been assigned
RegistrationDone == pc = "register" /\ ri > Len(gdf)

\* the three parts of every identifier of the loaded collection
ExistingParts == { Split(gdf[i].ReefID) : i \in Labeled(gdf) }

\* the counter codes found with one prefix and one grid code
CodesOf(prefix, grid_scheme) ==
    { p[3] : p \in { q \in ExistingParts :
                       q[1] = prefix /\ q[2] = grid_scheme } }

SetMax(S) == CHOOSE x \in S : \A y \in S : y <= x

\* C18: when the registration pass is over, every (prefix, grid code) found
\* in at least one existing identifier has as its occupied set exactly the
\* counter codes found with it, and as its next counter 1 + the greatest
\* decode_counter of them; a pair found in no identifier has no entry.
C18_RegistrationState ==
    RegistrationDone =>
        /\ \A p \in ExistingParts :
               LET codes == CodesOf(p[1], p[2])
               IN  /\ p[1] \in DOMAIN grid_existing_ids
                   /\ p[2] \in DOMAIN grid_existing_ids[p[1]]
                   /\ grid_existing_ids[p[1]][p[2]] = codes
                   /\ p[1] \in DOMAIN grid_feature_count
                   /\ p[2] \in DOMAIN grid_feature_count[p[1]]
                   /\ grid_feature_count[p[1]][p[2]] =
                          1 + SetMax({ decode_counter(c).val : c \in codes })
        /\ \A prefix \in DOMAIN grid_existing_ids :
               \A grid_scheme \in DOMAIN grid_existing_ids[prefix] :
                   CodesOf(prefix, grid_scheme) # {}
        /\ \A prefix \in DOMAIN grid_feature_count :
               \A grid_scheme \in DOMAIN grid_feature_count[prefix] :
                   CodesOf(prefix, grid_scheme) # {}
        /\ DOMAIN grid_existing_ids = { p[1] : p \in ExistingParts }
        /\ DOMAIN grid_feature_count = { p[1] : p \in ExistingParts }

\* two identifiers of one cell were registered, the greater counter first,
\* next to an identifier with another prefix
C18_Witness ==
    /\ RegistrationDone
    /\ Len(gdf) = 3
    /\ gdf[1].ReefID = ExistingIds(args.base).five2
    /\ gdf[2].ReefID = ExistingIds(args.base).zero3
    /\ gdf[3].ReefID = ExistingIds(args.base).other
    /\ grid_feature_count[<<"R">>][HomeCell[args.base]] = 6
    /\ grid_existing_ids[<<"R">>][HomeCell[args.base]] =
           { <<base_char_set[1], base_char_set[6]>>,
             <<base_char_set[1], base_char_set[1], base_char_set[1]>> }

\* a step of the assignment loop that writes a new identifier (line 139)
Commits == pc = "assign" /\ sub_gdf # <<>> /\ gdf' # gdf

\* the grid code and the counter code of the identifier that step writes
CommittedGrid == grid_schemes[Head(sub_gdf)]
CommittedCode ==
    LET id == gdf'[Head(sub_gdf)].ReefID
    IN  SubSeq(id, Len(args.prefix) + Len(CommittedGrid) + 3, Len(id))

\* C19 as stated: right after an identifier with counter c is committed for
\* (prefix, grid code), the next counter of the pair is c + 1 and the counter
\* code of c is a member of the pair's occupied set.
C19_CommitRecorded ==
    [][ Commits =>
          LET c == decode_counter(CommittedCode).val
          IN  /\ grid_feature_count'[args.prefix][CommittedGrid] = c + 1
              /\ args.prefix \in DOMAIN grid_existing_ids'
              /\ CommittedGrid \in DOMAIN grid_existing_ids'[args.prefix]
              /\ CommittedCode \in
                     grid_existing_ids'[args.prefix][CommittedGrid] ]_vars

\* C19 as amended: right after an identifier with counter c is committed for
\* (prefix, grid code), the next counter of the pair is c + 1; the occupied
\* sets are those of the registration pass (the prefix gets an empty entry
\* when it had none) and the counter code of c is not a member of them.
C19_CommitCounted ==
    [][ Commits =>
          LET c == decode_counter(CommittedCode).val
          IN  /\ grid_feature_count'[args.prefix][CommittedGrid] = c + 1
              /\ args.prefix \in DOMAIN grid_existing_ids'
              /\ grid_existing_ids'[args.prefix] =
                     DictGet(grid_existing_ids, args.prefix, EmptyDict)
              /\ \A p \in DOMAIN grid_existing_ids :
                     grid_existing_ids'[p] = grid_existing_ids[p]
              /\ ~Occupied(grid_existing_ids', args.prefix, CommittedGrid,
                           CommittedCode) ]_vars

\* an identifier with counter 1 has been committed in a cell where counter 0
\* was taken by an existing identifier
C19_Witness ==
    /\ pc = "assign"
    /\ args.prefix = <<"R">>
    /\ \E i, j \in 1..Len(input) :
          /\ input[i].ReefID = ExistingIds(args.base).zero3
          /\ input[j].ReefID = None
          /\ gdf[j].ReefID = MkId(<<"R">>, HomeCell[args.base],
                                  encode_counter(1, args.zero_padding))
    /\ grid_feature_count[<<"R">>][HomeCell[args.base]] = 2

\* C20: the retry loop ends after finitely many increments, at most one for
\* each occupied code, with a counter whose code is not in the occupied set,
\* and does not raise, whatever finite set of codes is occupied.
C20_RetryResolves ==
    (call.fn = "retry" /\ ret.stage = "retry") =>
        LET free == ret.new_counter
            code(n) == encode_counter(n, call.zero_padding)
        IN  /\ free >= call.counter
            /\ free - call.counter <= Cardinality(call.existing)
            /\ code(free) \notin call.existing
            /\ \A n \in call.counter..(free - 1) : code(n) \in call.existing

\* the loop has stepped over three occupied codes
C20_Witness ==
    /\ call.fn = "retry"
    /\ ret.stage = "retry"
    /\ ret.new_counter = call.counter + 3
    /\ Cardinality(call.existing) >= 4

\* the part of a new identifier after prefix-gridcode-
CounterCodeOf(id, prefix, grid) ==
    SubSeq(id, Len(prefix) + Len(grid) + 3, Len(id))

\* C21: after a successful run every feature that had no identifier at start
\* carries one, equal to prefix + "-" + encode_grid(centroid) + "-" +
\* encode_counter(c, zero_padding) for a counter c and the run's prefix, and
\* different from every identifier of the input; no feature is left without.
C21_NewIdsComplete ==
    (pc = "done" /\ run = "first") =>
        /\ output.written
        /\ Len(output.rows) = Len(input)
        /\ \A i \in 1..Len(input) : HasId(output.rows[i])
        /\ \A i \in Unlabeled(input) :
               LET id == output.rows[i].ReefID
                   grid == encode_grid(input[i].lon, input[i].lat)
                   code == CounterCodeOf(id, args.prefix, grid.val)
                   c == decode_counter(code)
               IN  /\ grid.exc = "none"
                   /\ c.exc = "none"
                   /\ code = encode_counter(c.val, args.zero_padding)
                   /\ id = args.prefix \o <<Hyphen>> \o grid.val
                              \o <<Hyphen>> \o code
                   /\ \A j \in Labeled(input) : input[j].ReefID # id

\* a run on a partly labeled collection has ended
C21_Witness ==
    /\ pc = "done"
    /\ run = "first"
    /\ Len(input) = 3
    /\ Labeled(input) # {}
    /\ Cardinality(Unlabeled(input)) = 2
    /\ \A i \in 1..Len(input) : HasId(output.rows[i])

\* the rows without identifier at start whose centroid has the grid code of
\* row i
CellMates(i) ==
    { j \in Unlabeled(input) :
        encode_grid(input[j].lon, input[j].lat) =
            encode_grid(input[i].lon, input[i].lat) }

\* the counter of the identifier the run has given to row i
NewCounter(i) ==
    decode_counter(
        CounterCodeOf(output.rows[i].ReefID, args.prefix,
                      encode_grid(input[i].lon, input[i].lat).val)).val

\* some identifier of the input has the run's prefix and the grid code of
\* row i
CellHasExisting(i) ==
    \E j \in Labeled(input) :
        LET parts == Split(input[j].ReefID)
        IN  /\ parts[1] = args.prefix
            /\ parts[2] = encode_grid(input[i].lon, input[i].lat).val

\* C22: among the features without identifier at start that fall in one grid
\* cell, counters are handed out in ascending order of geom.x + geom.y: a
\* strictly smaller sum gets a strictly smaller counter, the counters of the
\* cell are consecutive, and the first is 0 when the input has no identifier
\* with the run's prefix and that grid code.
C22_CountersFollowSum ==
    (pc = "done" /\ run = "first") =>
        \A i \in Unlabeled(input) :
            LET counters == { NewCounter(j) : j \in CellMates(i) }
                least == CHOOSE c \in counters : \A d \in counters : c <= d
            IN  /\ \A j \in CellMates(i) :
                       FLess(FAdd(input[i].lon, input[i].lat),
                             FAdd(input[j].lon, input[j].lat))
                           => NewCounter(i) < NewCounter(j)
                /\ \A j \in CellMates(i) \ {i} : NewCounter(j) # NewCounter(i)
                /\ counters = least..(least + Cardinality(CellMates(i)) - 1)
                /\ ~CellHasExisting(i) => least = 0

\* two features of an empty cell, stored with the greater sum first, were
\* numbered 1 and 0
C22_Witness ==
    /\ pc = "done"
    /\ run = "first"
    /\ Len(input) = 2
    /\ input[1] = Row(P3.lon, P3.lat, None)
    /\ input[2] = Row(P1.lon, P1.lat, None)
    /\ NewCounter(1) = 1
    /\ NewCounter(2) = 0

\* the counter a cell starts at, from the identifiers of the input that have
\* the run's prefix and the grid code of row i, and from nothing else
CellBase(i) ==
    LET grid == encode_grid(input[i].lon, input[i].lat).val
        codes == { Split(input[j].ReefID)[3] :
                     j \in { k \in Labeled(input) :
                               /\ Split(input[k].ReefID)[1] = args.prefix
                               /\ Split(input[k].ReefID)[2] = grid } }
    IN  IF codes = {} THEN 0
        ELSE 1 + SetMax({ decode_counter(c).val : c \in codes })

\* the rows of row i's cell that are given an identifier before row i
AssignedBefore(i) ==
    { j \in CellMates(i) \ {i} :
        LET a == FAdd(input[j].lon, input[j].lat)
            b == FAdd(input[i].lon, input[i].lat)
        IN  \/ FLess(a, b)
            \/ a = b /\ (IF sort_ties = "first" THEN j < i ELSE j > i) }

\* C23: the counter given to a new feature of (prefix P, grid code G) is
\* decided by the existing identifiers with prefix P and grid code G and by
\* the earlier assignments in (P, G) alone: identifiers with another prefix
\* or grid code and assignments in other cells do not change it.
C23_NamespaceLocal ==
    (pc = "done" /\ run = "first") =>
        \A i \in Unlabeled(input) :
            NewCounter(i) = CellBase(i) + Cardinality(AssignedBefore(i))

\* two new features of one cell got counters 0 and 1 while another cell
\* holds counter 0 of the same prefix
C23_Witness ==
    /\ pc = "done"
    /\ run = "first"
    /\ args.prefix = <<"R">>
    /\ Len(input) = 3
    /\ input[1] = Row(P1.lon, P1.lat, ExistingIds(args.base).zero3)
    /\ input[2] = Row(P4.lon, P4.lat, None)
    /\ input[3] = Row(P4.lon, P4.lat, None)
    /\ NewCounter(2) = 0
    /\ NewCounter(3) = 1

\* C24: every counter newly assigned in (prefix, grid code) is strictly
\* greater than decode_counter of every counter code the input holds for that
\* (prefix, grid code), also when smaller counters are unused: existing
\* counters 0 and 5 lead to 6, never to 1.
C24_NoBackFill ==
    (pc = "done" /\ run = "first") =>
        \A i \in Unlabeled(input) :
            \A j \in Labeled(input) :
                LET parts == Split(input[j].ReefID)
                IN  ( /\ parts[1] = args.prefix
                      /\ parts[2] =
                             encode_grid(input[i].lon, input[i].lat).val ) =>
                        NewCounter(i) > decode_counter(parts[3]).val

\* the cell held counters 0 and 5 and the new feature got counter 6
C24_Witness ==
    /\ pc = "done"
    /\ run = "first"
    /\ args.prefix = <<"R">>
    /\ Len(input) = 3
    /\ input[1] = Row(P3.lon, P3.lat, ExistingIds(args.base).five2)
    /\ input[2] = Row(P1.lon, P1.lat, None)
    /\ input[3] = Row(P1.lon, P1.lat, ExistingIds(args.base).zero3)
    /\ NewCounter(2) = 6

\* the assignment loop is at a row that gets a new identifier
AboutToAssign ==
    /\ pc = "assign"
    /\ sub_gdf # <<>>
    /\ gdf[Head(sub_gdf)].ReefID = None

\* C25: in every state of a run the first candidate, encode_counter of the
\* pair's next counter, is not in the occupied set of (prefix, grid code):
\* the body of the retry loop is never executed.
C25_RetryNeverTaken ==
    AboutToAssign =>
        LET prefix == args.prefix
            grid_scheme == grid_schemes[Head(sub_gdf)]
            ids == WithPrefix(grid_existing_ids, prefix)
            counts == WithPrefix(grid_feature_count, prefix)
            next_counter == DictGet(counts[prefix], grid_scheme, 0)
            candidate == encode_counter(next_counter, args.zero_padding)
        IN  /\ ~( /\ grid_scheme \in DOMAIN ids[prefix]
                  /\ candidate \in ids[prefix][grid_scheme] )
            /\ FirstFree(ids, prefix, grid_scheme, next_counter,
                         args.zero_padding) = next_counter

\* a row is about to get an identifier in a cell with two occupied codes
C25_Witness ==
    /\ AboutToAssign
    /\ args.prefix \in DOMAIN grid_existing_ids
    /\ grid_schemes[Head(sub_gdf)] \in DOMAIN grid_existing_ids[args.prefix]
    /\ Cardinality(grid_existing_ids[args.prefix]
                                     [grid_schemes[Head(sub_gdf)]]) = 2

\* C26 as stated: every identifier the allocator emits splits on '-' into
\* exactly the three parts it was built from, the run's prefix, the grid code
\* and the counter code, for every prefix the command line accepts, also one
\* that contains a hyphen; a later registration pass parses it back.
C26_EmittedIdsParseBack ==
    (pc = "done" /\ run = "first") =>
        \A i \in Unlabeled(input) :
            LET id == output.rows[i].ReefID
                grid == encode_grid(input[i].lon, input[i].lat).val
            IN  Split(id) = << args.prefix, grid,
                               CounterCodeOf(id, args.prefix, grid) >>

\* (prefix, grid code, counter value) of row i: of its identifier in the
\* input, and of the identifier it carries in the output
InputKey(i) ==
    LET parts == Split(input[i].ReefID)
    IN  << parts[1], parts[2], decode_counter(parts[3]).val >>

OutputKey(i) ==
    IF HasId(input[i]) THEN InputKey(i)
    ELSE << args.prefix, encode_grid(input[i].lon, input[i].lat).val,
            NewCounter(i) >>

\* C27: if no two identifiers of the input with the same (prefix, grid code)
\* decode to the same counter value, then no two identifiers of the output
\* with the same (prefix, grid code) do, also when existing counter codes
\* have another width than the run's zero_padding.
C27_NumericUniqueness ==
    ( /\ pc = "done"
      /\ run = "first"
      /\ \A i, j \in Labeled(input) : i # j => InputKey(i) # InputKey(j) ) =>
        \A i, j \in 1..Len(input) : i # j => OutputKey(i) # OutputKey(j)

\* the cell held counter 5 in width 2 and counter 0 in width 3, and a run
\* with another width has added counter 6
C27_Witness ==
    /\ pc = "done"
    /\ run = "first"
    /\ args.prefix = <<"R">>
    /\ args.zero_padding = 1
    /\ Len(input) = 3
    /\ input[1] = Row(P1.lon, P1.lat, ExistingIds(args.base).zero3)
    /\ input[2] = Row(P3.lon, P3.lat, ExistingIds(args.base).five2)
    /\ input[3] = Row(P1.lon, P1.lat, None)
    /\ OutputKey(3) = << <<"R">>, HomeCell[args.base], 6 >>

====
